---------------------------- MODULE Spec2Model ----------------------------
(***************************************************************************)
(* A model of the wallet state engine of bdk_core_staging:                 *)
(*   - SparseChain        (bdk_core/src/sparse_chain.rs)                   *)
(*   - CoinSelector       (bdk_core/src/coin_select.rs)                    *)
(*   - KeychainTxOutIndex (bdk_keychain/src/keychain_txout_index.rs)       *)
(* Every operation is one action; the last call and what it returned are   *)
(* kept in `call` and `ret` until the caller takes the result (Return).    *)
(***************************************************************************)
EXTENDS Integers, Sequences, FiniteSets, TLC

VARIABLES
    \* SparseChain (sparse_chain.rs:7-22)
    checkpoints,        \* BTreeMap<u32, BlockHash>: a function height -> hash
    txid_by_height,     \* BTreeSet<(u32, Txid)>: a set of <<height, txid>>
    txid_to_index,      \* HashMap<Txid, u32>: a function txid -> height
    mempool,            \* HashSet<Txid>
    checkpoint_limit,   \* usize, 0 means no limit
    \* CoinSelector (coin_select.rs:8-12)
    candidates,         \* Vec<WeightedValue>: a function 0..n-1 -> [value, weight]
    selected,           \* BTreeSet<usize>
    opts,               \* CoinSelectorOpt
    \* KeychainTxOutIndex (keychain_txout_index.rs:47-50)
    keychains,          \* BTreeMap<K, Descriptor>: a function keychain -> descriptor
    script_pubkeys,     \* inner.script_pubkeys(): a function <<keychain, index>> -> script
    txouts,             \* inner: the scripts of the scanned outputs that matched a stored script
    derived,            \* history: the <<keychain, script>> pairs derive_new has returned
    \* the call in progress / just finished, and its result
    call,
    ret

chainVars == <<checkpoints, txid_by_height, txid_to_index, mempool, checkpoint_limit>>
coinVars == <<candidates, selected, opts>>
keychainVars == <<keychains, script_pubkeys, txouts, derived>>
vars ==
    <<checkpoints, txid_by_height, txid_to_index, mempool, checkpoint_limit,
      candidates, selected, opts, keychains, script_pubkeys, txouts, derived, call, ret>>

---------------------------------------------------------------------------
(* Bounds of the model *)

\* heights are 1..MaxHeight
MaxHeight == 2
\* a candidate lists at most MaxTxids (txid, height) entries
MaxTxids == 2
\* set_checkpoint_limit is called with None or Some(0..MaxLimit)
MaxLimit == 1

Heights == 1 .. MaxHeight
Hashes == {"a", "b"}
\* Txids are ordered as Txid is (BTreeSet order of txid_by_height)
Txids == {1, 2}

---------------------------------------------------------------------------
(* Option<T>: None is the empty set, Some(x) the singleton *)

None == {}
Some(x) == {x}
IsSome(o) == o # {}
Unwrap(o) == CHOOSE x \in o : TRUE
Option(S) == {None} \cup {Some(x) : x \in S}

\* BTreeMap helpers
EmptyMap == <<>>
MapPut(m, k, v) == [x \in DOMAIN m \cup {k} |-> IF x = k THEN v ELSE m[x]]
MapRemove(m, k) == [x \in DOMAIN m \ {k} |-> m[x]]
MapGet(m, k) == IF k \in DOMAIN m THEN Some(m[k]) ELSE None
\* BTreeMap::split_off(&k): self keeps the keys < k, the keys >= k are returned
SplitOffKeep(m, k) == [x \in {y \in DOMAIN m : y < k} |-> m[x]]
SplitOffTaken(m, k) == [x \in {y \in DOMAIN m : y >= k} |-> m[x]]

BlockId(h, hash) == [height |-> h, hash |-> hash]
BlockIds == [height : Heights, hash : Hashes]

\* CheckpointCandidate (sparse_chain.rs:318-330); a txids entry is <<txid, Option<height>>>
TxidEntries == Txids \X Option(Heights)
TxidLists == UNION {[1 .. n -> TxidEntries] : n \in 0 .. MaxTxids}
Candidates ==
    [txids : TxidLists, base_tip : Option(BlockIds),
     invalidate : Option(BlockIds), new_tip : BlockIds]

\* the SparseChain as one value
Chain ==
    [checkpoints |-> checkpoints, txid_by_height |-> txid_by_height,
     txid_to_index |-> txid_to_index, mempool |-> mempool,
     checkpoint_limit |-> checkpoint_limit]

\* #[derive(Default)]
DefaultChain ==
    [checkpoints |-> EmptyMap, txid_by_height |-> {}, txid_to_index |-> EmptyMap,
     mempool |-> {}, checkpoint_limit |-> 0]

---------------------------------------------------------------------------
(* SparseChain queries *)

MaxOf(S) == CHOOSE x \in S : \A y \in S : y <= x

latest_checkpoint(c) ==
    IF DOMAIN c.checkpoints = {} THEN None
    ELSE LET h == MaxOf(DOMAIN c.checkpoints) IN Some(BlockId(h, c.checkpoints[h]))

checkpoint_at(c, height) ==
    IF height \in DOMAIN c.checkpoints
    THEN Some(BlockId(height, c.checkpoints[height]))
    ELSE None

\* lines 98-105: the mempool is looked at first
transaction_at(c, txid) ==
    IF txid \in c.mempool THEN Some(None)
    ELSE IF txid \in DOMAIN c.txid_to_index THEN Some(Some(c.txid_to_index[txid]))
    ELSE None

---------------------------------------------------------------------------
(* ApplyResult *)

ResOk == [kind |-> "Ok"]
ResBaseTipNotMatching(got, expected) ==
    [kind |-> "Stale", reason |-> "BaseTipNotMatching", got |-> got, expected |-> expected]
ResTxidHeightGreaterThanNewTip(tip, entry) ==
    [kind |-> "Stale", reason |-> "TxidHeightGreaterThanNewTip", tip |-> tip, txid |-> entry]
ResInvalidationHashNotMatching(got, expected) ==
    [kind |-> "Stale", reason |-> "InvalidationHashNotMatching", got |-> got,
     expected |-> expected]
ResInconsistent(txid) ==
    [kind |-> "Inconsistent", txid |-> txid, conflicts_with |-> txid]
\* a failed debug_assert! (debug builds only) unwinds out of the call
ResPanic == [kind |-> "Panic"]
\* the loop over the candidate's txids found nothing to reject
ResPass == [kind |-> "Pass"]

---------------------------------------------------------------------------
(* invalidate_checkpoints *)

\* mutant: the split takes only the pairs above the height
RemovedTxidsAbove(c, height) == {p \in c.txid_by_height : p[1] > height}

\* the pairs txid_by_height.split_off(&(height, Txid::all_zeros())) takes
RemovedTxids(c, height) == {p \in c.txid_by_height : p[1] >= height}

\* BTreeSet order of (u32, Txid)
PairLess(p, q) == p[1] < q[1] \/ (p[1] = q[1] /\ p[2] < q[2])

\* debug_assert!(matches!(h, Some(h) if h == *exp_h)) for the pair p, given the map
\* as the loop has left it
DebugAssertHolds(index, p) == p[2] \in DOMAIN index /\ index[p[2]] = p[1]

\* the txid -> height map after the loop has removed the txids of the pairs in `done`
IndexWithout(index, done) == [t \in DOMAIN index \ {p[2] : p \in done} |-> index[t]]

\* the pairs of `removed` at which the debug assertion fails when the loop gets there
FailingPairs(c, removed) ==
    {p \in removed :
        ~DebugAssertHolds(IndexWithout(c.txid_to_index, {q \in removed : PairLess(q, p)}), p)}

invalidate_checkpoints(c, height) ==
    LET removed == RemovedTxids(c, height) IN
    [c EXCEPT
        !.checkpoints = SplitOffKeep(c.checkpoints, height),
        !.txid_by_height = c.txid_by_height \ removed,
        !.txid_to_index = IndexWithout(c.txid_to_index, removed),
        !.mempool = IF removed # {} THEN {} ELSE c.mempool]

\* a debug build: the state the panic leaves when an assertion fails (the first
\* failing pair's txid is removed before the assertion is evaluated)
invalidate_checkpoints_panic(c, height) ==
    LET removed == RemovedTxids(c, height)
        failing == FailingPairs(c, removed)
        first == CHOOSE p \in failing : \A q \in failing : p = q \/ PairLess(p, q)
        done == {q \in removed : q = first \/ PairLess(q, first)}
    IN [c EXCEPT
        !.checkpoints = SplitOffKeep(c.checkpoints, height),
        !.txid_by_height = c.txid_by_height \ removed,
        !.txid_to_index = IndexWithout(c.txid_to_index, done)]

invalidate_can_panic(c, height) == FailingPairs(c, RemovedTxids(c, height)) # {}

---------------------------------------------------------------------------
(* prune_checkpoints *)

\* self.checkpoints.keys().rev().nth(n): the key with n keys above it
NthFromTop(m, n) == {h \in DOMAIN m : Cardinality({x \in DOMAIN m : x > h}) = n}

\* what prune_checkpoints leaves in self.checkpoints
prune_keep(c) ==
    IF c.checkpoint_limit > 0 /\ NthFromTop(c.checkpoints, c.checkpoint_limit) # {}
    THEN SplitOffKeep(c.checkpoints, Unwrap(NthFromTop(c.checkpoints, c.checkpoint_limit)))
    ELSE c.checkpoints

\* what prune_checkpoints returns: Some(split_off(&height)) or None
prune_return(c) ==
    IF c.checkpoint_limit > 0 /\ NthFromTop(c.checkpoints, c.checkpoint_limit) # {}
    THEN Some(SplitOffTaken(c.checkpoints,
                            Unwrap(NthFromTop(c.checkpoints, c.checkpoint_limit))))
    ELSE None

prune_checkpoints(c) == [c EXCEPT !.checkpoints = prune_keep(c)]

---------------------------------------------------------------------------
(* apply_checkpoint *)

\* lines 146-154: the base-tip rule
BaseTipFails(c, cand) ==
    IsSome(cand.base_tip) /\ latest_checkpoint(c) # cand.base_tip

\* mutant: the consistency check comes first, and its `continue` skips the height check
CheckTxidConsistencyFirst(c, cand, entry) ==
    LET txid == entry[1]
        new_height == entry[2]
    IN  IF txid \in DOMAIN c.txid_to_index
        THEN LET height == c.txid_to_index[txid] IN
             IF IsSome(cand.invalidate) /\ height >= Unwrap(cand.invalidate).height
             THEN ResPass
             ELSE IF new_height = Some(height)
             THEN ResPass
             ELSE ResInconsistent(txid)
        ELSE IF IsSome(new_height) /\ Unwrap(new_height) > cand.new_tip.height
        THEN ResTxidHeightGreaterThanNewTip(cand.new_tip, entry)
        ELSE ResPass

\* lines 157-181: what the loop body decides for one (txid, new_height)
CheckTxid(c, cand, entry) ==
    LET txid == entry[1]
        new_height == entry[2]
    IN  IF IsSome(new_height) /\ Unwrap(new_height) > cand.new_tip.height
        THEN ResTxidHeightGreaterThanNewTip(cand.new_tip, entry)
        ELSE IF txid \in DOMAIN c.txid_to_index
        THEN LET height == c.txid_to_index[txid] IN
             IF IsSome(cand.invalidate) /\ height >= Unwrap(cand.invalidate).height
             THEN ResPass
             ELSE IF new_height = Some(height)
             THEN ResPass
             ELSE ResInconsistent(txid)
        ELSE ResPass

\* lines 156-182: the loop returns at the first entry it rejects
RECURSIVE PreValidate(_, _, _)
PreValidate(c, cand, i) ==
    IF i > Len(cand.txids) THEN ResPass
    ELSE LET r == CheckTxid(c, cand, cand.txids[i]) IN
         IF r.kind # "Pass" THEN r ELSE PreValidate(c, cand, i + 1)

\* lines 184-191: the hash stored at invalidate.height must be invalidate.hash
InvalidationFails(c, cand) ==
    /\ IsSome(cand.invalidate)
    /\ MapGet(c.checkpoints, Unwrap(cand.invalidate).height) # Some(Unwrap(cand.invalidate).hash)

\* lines 196-198: entry(new_tip.height).or_insert_with(new_tip.hash)
InstallTip(c, cand) ==
    IF cand.new_tip.height \in DOMAIN c.checkpoints THEN c
    ELSE [c EXCEPT !.checkpoints = MapPut(c.checkpoints, cand.new_tip.height, cand.new_tip.hash)]

\* lines 201-212: one (txid, conf) of the merge loop
MergeTxid(c, entry) ==
    LET txid == entry[1]
        conf == entry[2]
    IN  IF IsSome(conf)
        THEN IF <<Unwrap(conf), txid>> \notin c.txid_by_height
             THEN [c EXCEPT
                    !.txid_by_height = c.txid_by_height \cup {<<Unwrap(conf), txid>>},
                    !.txid_to_index = MapPut(c.txid_to_index, txid, Unwrap(conf)),
                    !.mempool = c.mempool \ {txid}]
             ELSE c
        ELSE [c EXCEPT !.mempool = c.mempool \cup {txid}]

\* lines 200-213
RECURSIVE MergeTxids(_, _, _)
MergeTxids(c, txids, i) ==
    IF i > Len(txids) THEN c
    ELSE MergeTxids(MergeTxid(c, txids[i]), txids, i + 1)

\* lines 193-216 once every check has passed
Commit(c, cand) ==
    LET c1 == IF IsSome(cand.invalidate)
              THEN invalidate_checkpoints(c, Unwrap(cand.invalidate).height)
              ELSE c
    IN prune_checkpoints(MergeTxids(InstallTip(c1, cand), cand.txids, 1))

\* mutant: the invalidation is carried out before its hash is checked
apply_checkpoint_invalidates_first(c, cand) ==
    IF BaseTipFails(c, cand)
    THEN [ret |-> ResBaseTipNotMatching(latest_checkpoint(c), Unwrap(cand.base_tip)),
          chain |-> c]
    ELSE IF PreValidate(c, cand, 1).kind # "Pass"
    THEN [ret |-> PreValidate(c, cand, 1), chain |-> c]
    ELSE IF InvalidationFails(c, cand)
    THEN [ret |-> ResInvalidationHashNotMatching(
                     MapGet(c.checkpoints, Unwrap(cand.invalidate).height),
                     Unwrap(cand.invalidate)),
          chain |-> invalidate_checkpoints(c, Unwrap(cand.invalidate).height)]
    ELSE [ret |-> ResOk, chain |-> Commit(c, cand)]

\* apply_checkpoint: the result and the chain it leaves, as [ret, chain]
apply_checkpoint(c, cand) ==
    IF BaseTipFails(c, cand)
    THEN [ret |-> ResBaseTipNotMatching(latest_checkpoint(c), Unwrap(cand.base_tip)),
          chain |-> c]
    ELSE IF PreValidate(c, cand, 1).kind # "Pass"
    THEN [ret |-> PreValidate(c, cand, 1), chain |-> c]
    ELSE IF InvalidationFails(c, cand)
    THEN [ret |-> ResInvalidationHashNotMatching(
                     MapGet(c.checkpoints, Unwrap(cand.invalidate).height),
                     Unwrap(cand.invalidate)),
          chain |-> c]
    ELSE [ret |-> ResOk, chain |-> Commit(c, cand)]

\* a debug build panics inside invalidate_checkpoints when its assertion fails
apply_checkpoint_can_panic(c, cand) ==
    /\ apply_checkpoint(c, cand).ret.kind = "Ok"
    /\ IsSome(cand.invalidate)
    /\ invalidate_can_panic(c, Unwrap(cand.invalidate).height)

\* every outcome a build can produce
apply_checkpoint_outcomes(c, cand) ==
    {apply_checkpoint(c, cand)} \cup
    (IF apply_checkpoint_can_panic(c, cand)
     THEN {[ret |-> ResPanic,
            chain |-> invalidate_checkpoints_panic(c, Unwrap(cand.invalidate).height)]}
     ELSE {})

\* mutant: the block to connect is named as the one to invalidate
BlockCandidateInvalidatesNewBlock(c, block_id, transactions) ==
    [txids |-> [i \in 1 .. Len(transactions) |-> <<transactions[i], Some(block_id.height)>>],
     base_tip |-> latest_checkpoint(c),
     invalidate |->
        IF IsSome(checkpoint_at(c, block_id.height))
           /\ Unwrap(checkpoint_at(c, block_id.height)).hash # block_id.hash
        THEN Some(block_id)
        ELSE None,
     new_tip |-> block_id]

\* lines 118-140
BlockCandidate(c, block_id, transactions) ==
    [txids |-> [i \in 1 .. Len(transactions) |-> <<transactions[i], Some(block_id.height)>>],
     base_tip |-> latest_checkpoint(c),
     invalidate |->
        IF IsSome(checkpoint_at(c, block_id.height))
           /\ Unwrap(checkpoint_at(c, block_id.height)).hash # block_id.hash
        THEN checkpoint_at(c, block_id.height)
        ELSE None,
     new_tip |-> block_id]

apply_block_txs_outcomes(c, block_id, transactions) ==
    apply_checkpoint_outcomes(c, BlockCandidate(c, block_id, transactions))

\* lines 225-234
disconnect_matches(c, block_id) ==
    MapGet(c.checkpoints, block_id.height) = Some(block_id.hash)

disconnect_block(c, block_id) ==
    IF disconnect_matches(c, block_id)
    THEN [invalidate_checkpoints(c, block_id.height) EXCEPT !.mempool = {}]
    ELSE c

\* lines 301-303
set_checkpoint_limit(c, limit) ==
    [c EXCEPT !.checkpoint_limit = IF IsSome(limit) THEN Unwrap(limit) ELSE 0]

---------------------------------------------------------------------------
(* CoinSelector *)

\* a candidate list has at most MaxCandidates entries
MaxCandidates == 2

TXIN_BASE_WEIGHT == (32 + 4 + 4 + 1) * 4

\* target_feerate is an f32; the model takes it from the rationals num/den with den a
\* power of two, which f32 holds exactly, and all values and weights so small that the
\* f32 quotient and products below are exact or round to the same side of the bound
Feerate(num, den) == [num |-> num, den |-> den]

\* CoinSelectorOpt::from_weights (lines 37-47): 4.0 sats per weight unit
from_weights(base_weight, drain_weight) ==
    [target_value |-> 0, target_feerate |-> Feerate(4, 1), min_absolute_fee |-> 0,
     base_weight |-> base_weight, drain_weight |-> drain_weight,
     starting_input_value |-> 0]

\* the coin selector as one value
Selector == [candidates |-> candidates, selected |-> selected, opts |-> opts]

RECURSIVE SumOver(_, _)
SumOver(S, f) ==
    IF S = {} THEN 0
    ELSE LET i == CHOOSE x \in S : TRUE IN f[i] + SumOver(S \ {i}, f)

\* lines 81-87
current_weight(cs) ==
    cs.opts.base_weight
        + SumOver(cs.selected, [i \in cs.selected |-> cs.candidates[i].weight + TXIN_BASE_WEIGHT])

\* mutant: the value the selection starts with is left out
current_value_of_candidates(cs) ==
    SumOver(cs.selected, [i \in cs.selected |-> cs.candidates[i].value])

\* lines 119-121
current_value(cs) ==
    cs.opts.starting_input_value
        + SumOver(cs.selected, [i \in cs.selected |-> cs.candidates[i].value])

\* lines 95-98: the unselected indexes, ascending
RECURSIVE Ascending(_)
Ascending(S) ==
    IF S = {} THEN <<>>
    ELSE LET m == CHOOSE x \in S : \A y \in S : x <= y IN <<m>> \o Ascending(S \ {m})

unselected(cs) == Ascending(DOMAIN cs.candidates \ cs.selected)

\* mutant: the product is truncated instead of rounded up
FloorFee(feerate, weight) == (feerate.num * weight) \div feerate.den

\* (feerate * weight as f32).ceil() as u64
CeilFee(feerate, weight) == (feerate.num * weight + feerate.den - 1) \div feerate.den

\* mutant: .min() in place of .max()
Min(a, b) == IF a <= b THEN a ELSE b

Max(a, b) == IF a >= b THEN a ELSE b

\* mutant: the feerate of the selection is not compared with the target
FeerateNotChecked(inputs_minus_outputs, base_weight, feerate) == FALSE

\* lines 133-138: (inputs_minus_outputs as f32 / base_weight as f32) < target_feerate;
\* with base_weight = 0 the quotient is +inf or NaN and the comparison is false
FeerateTooLow(inputs_minus_outputs, base_weight, feerate) ==
    base_weight > 0 /\ inputs_minus_outputs * feerate.den < feerate.num * base_weight

NoSelection == [kind |-> "None"]
SomeSelection(sel, excess, fee, use_change, total_weight) ==
    [kind |-> "Some", selected |-> sel, excess |-> excess, fee |-> fee,
     use_change |-> use_change, total_weight |-> total_weight]

\* a u64 that has wrapped below zero: the integer x < 0 stands for 2^64 + x
WrappedU64(x) == x

\* line 155: current_value() - target_fee_without_change is an unchecked u64
\* subtraction: below zero it panics with overflow checks and wraps without
ImpliedUnderflows(cs) ==
    LET base_weight == current_weight(cs)
        target_fee_without_change ==
            Max(CeilFee(cs.opts.target_feerate, base_weight), cs.opts.min_absolute_fee)
    IN current_value(cs) < target_fee_without_change

\* lines 123-176, in a build whose u64 subtraction wraps
finish(cs) ==
    LET base_weight == current_weight(cs) IN
    IF current_value(cs) < cs.opts.target_value THEN NoSelection
    ELSE
    LET inputs_minus_outputs == current_value(cs) - cs.opts.target_value IN
    IF FeerateTooLow(inputs_minus_outputs, base_weight, cs.opts.target_feerate)
    THEN NoSelection
    ELSE IF inputs_minus_outputs < cs.opts.min_absolute_fee THEN NoSelection
    ELSE
    LET weight_with_change == base_weight + cs.opts.drain_weight
        target_fee_with_change ==
            Max(CeilFee(cs.opts.target_feerate, weight_with_change), cs.opts.min_absolute_fee)
        target_fee_without_change ==
            Max(CeilFee(cs.opts.target_feerate, base_weight), cs.opts.min_absolute_fee)
    IN  IF inputs_minus_outputs >= target_fee_with_change
        THEN SomeSelection(cs.selected, inputs_minus_outputs - target_fee_with_change,
                           target_fee_with_change, TRUE, weight_with_change)
        ELSE LET implied_output_value == current_value(cs) - target_fee_without_change
             IN  IF implied_output_value < 0
                 \* wrapped to 2^64 + implied_output_value, which target_value is below
                 THEN SomeSelection(cs.selected,
                                    WrappedU64(implied_output_value - cs.opts.target_value),
                                    target_fee_without_change, FALSE, base_weight)
                 ELSE IF implied_output_value >= cs.opts.target_value
                 THEN SomeSelection(cs.selected, implied_output_value - cs.opts.target_value,
                                    target_fee_without_change, FALSE, base_weight)
                 ELSE NoSelection

\* finish reaches line 155 and the subtraction there goes below zero
finish_can_panic(cs) ==
    /\ current_value(cs) >= cs.opts.target_value
    /\ ~FeerateTooLow(current_value(cs) - cs.opts.target_value, current_weight(cs),
                      cs.opts.target_feerate)
    /\ current_value(cs) - cs.opts.target_value >= cs.opts.min_absolute_fee
    /\ current_value(cs) - cs.opts.target_value
         < Max(CeilFee(cs.opts.target_feerate, current_weight(cs) + cs.opts.drain_weight),
               cs.opts.min_absolute_fee)
    /\ ImpliedUnderflows(cs)

\* every outcome of finish a build can produce
finish_outcomes(cs) ==
    {finish(cs)} \cup (IF finish_can_panic(cs) THEN {ResPanic} ELSE {})

\* lines 76-79
select(cs, index) == [cs EXCEPT !.selected = cs.selected \cup {index}]

\* lines 107-114: the loop over the indexes that were unselected at entry, from the
\* i-th on; `selection` is what the last finish() gave. Yields [cs, ret].
RECURSIVE SelectLoop(_, _, _, _)
SelectLoop(cs, todo, i, selection) ==
    IF i > Len(todo) THEN [cs |-> cs, ret |-> selection]
    ELSE IF finish(cs).kind = "Some" THEN [cs |-> cs, ret |-> finish(cs)]
    ELSE SelectLoop(select(cs, todo[i]), todo, i + 1, finish(cs))

\* lines 104-117
select_until_finished(cs) == SelectLoop(cs, unselected(cs), 1, NoSelection)

---------------------------------------------------------------------------
(* KeychainTxOutIndex *)

\* store_up_to is called with up_to in 0..MaxIndex, derive_new while the next index
\* is at most MaxIndex
MaxIndex == 1
\* scan is given at most MaxScanned outputs
MaxScanned == 2

KeychainIds == {1, 2}
\* two wildcard descriptors and one without wildcard
Descriptors ==
    {[id |-> "x", wildcard |-> TRUE], [id |-> "y", wildcard |-> TRUE],
     [id |-> "z", wildcard |-> FALSE]}

\* descriptor.at_derivation_index(index).derived_descriptor(&secp).script_pubkey():
\* a descriptor without wildcard derives the same script at every index
DeriveSpk(descriptor, index) ==
    [descriptor |-> descriptor.id, index |-> IF descriptor.wildcard THEN index ELSE 0]

\* the keychain index as one value
KIndex == [keychains |-> keychains, script_pubkeys |-> script_pubkeys, txouts |-> txouts]

\* SpkTxOutIndex::add_spk: the tag now maps to the script
add_spk(ix, tag, spk) == [ix EXCEPT !.script_pubkeys = MapPut(ix.script_pubkeys, tag, spk)]

\* the indexes stored for a keychain
StoredIndexes(ix, keychain) == {t[2] : t \in {u \in DOMAIN ix.script_pubkeys : u[1] = keychain}}

\* lines 143-149
derivation_index(ix, keychain) ==
    IF StoredIndexes(ix, keychain) = {} THEN None
    ELSE Some(MaxOf(StoredIndexes(ix, keychain)))

\* mutant: the current index is returned, not the one after it
current_derivation_index(ix, keychain) ==
    IF IsSome(derivation_index(ix, keychain))
    THEN Unwrap(derivation_index(ix, keychain))
    ELSE 0

\* lines 136-140
next_derivation_index(ix, keychain) ==
    IF IsSome(derivation_index(ix, keychain))
    THEN Unwrap(derivation_index(ix, keychain)) + 1
    ELSE 0

\* SpkTxOutIndex::scan_txout: an output whose script matches a stored script is recorded
scan_txout(ix, spk) ==
    IF \E tag \in DOMAIN ix.script_pubkeys : ix.script_pubkeys[tag] = spk
    THEN [ix EXCEPT !.txouts = ix.txouts \cup {spk}]
    ELSE ix

\* SpkTxOutIndex::scan: scan_txout for every output of the object
RECURSIVE scan(_, _)
scan(ix, spks) ==
    IF spks = {} THEN ix
    ELSE LET spk == CHOOSE x \in spks : TRUE IN scan(scan_txout(ix, spk), spks \ {spk})

\* SpkTxOutIndex::unused: the tags whose script has not been seen on a scanned output
unused_tags(ix) == {tag \in DOMAIN ix.script_pubkeys : ix.script_pubkeys[tag] \notin ix.txouts}

\* lines 252-257: the unused indexes of the keychain
keychain_unused(ix, keychain) == {tag[2] : tag \in {u \in unused_tags(ix) : u[1] = keychain}}

\* mutant: a keychain added again with another descriptor starts over
add_keychain_afresh(ix, keychain, descriptor) ==
    [ix EXCEPT
        !.keychains = MapPut(ix.keychains, keychain, descriptor),
        !.script_pubkeys =
            IF keychain \in DOMAIN ix.keychains /\ ix.keychains[keychain] # descriptor
            THEN [tag \in {u \in DOMAIN ix.script_pubkeys : u[1] # keychain}
                    |-> ix.script_pubkeys[tag]]
            ELSE ix.script_pubkeys]

\* lines 100-103
add_keychain(ix, keychain, descriptor) ==
    [ix EXCEPT !.keychains = MapPut(ix.keychains, keychain, descriptor)]

\* mutant: the range next_to_derive..end leaves `end` out
RECURSIVE StoreRangeExclusive(_, _, _, _)
StoreRangeExclusive(ix, keychain, index, end) ==
    IF index >= end THEN ix
    ELSE StoreRangeExclusive(add_spk(ix, <<keychain, index>>,
                                     DeriveSpk(ix.keychains[keychain], index)),
                             keychain, index + 1, end)

\* lines 192-199: the loop from `index` to `end`
RECURSIVE StoreRange(_, _, _, _)
StoreRange(ix, keychain, index, end) ==
    IF index > end THEN ix
    ELSE StoreRange(add_spk(ix, <<keychain, index>>,
                            DeriveSpk(ix.keychains[keychain], index)),
                    keychain, index + 1, end)

\* mutant: a keychain that was never added falls through to the final `true`
store_up_to_unknown_true(ix, keychain, up_to) ==
    IF keychain \notin DOMAIN ix.keychains THEN [ret |-> TRUE, ix |-> ix]
    ELSE LET end == IF ix.keychains[keychain].wildcard THEN up_to ELSE 0
             next_to_derive == next_derivation_index(ix, keychain)
         IN  IF next_to_derive > end THEN [ret |-> FALSE, ix |-> ix]
             ELSE [ret |-> TRUE, ix |-> StoreRange(ix, keychain, next_to_derive, end)]

\* lines 176-202, as [ret, ix]
store_up_to(ix, keychain, up_to) ==
    IF keychain \notin DOMAIN ix.keychains THEN [ret |-> FALSE, ix |-> ix]
    ELSE LET end == IF ix.keychains[keychain].wildcard THEN up_to ELSE 0
             next_to_derive == next_derivation_index(ix, keychain)
         IN  IF next_to_derive > end THEN [ret |-> FALSE, ix |-> ix]
             ELSE [ret |-> TRUE, ix |-> StoreRange(ix, keychain, next_to_derive, end)]

\* lines 166-168: Iterator::any over the map in key order stops at the first true
RECURSIVE StoreAny(_, _, _, _)
StoreAny(ix, map, keys, i) ==
    IF i > Len(keys) THEN [ret |-> FALSE, ix |-> ix]
    ELSE LET r == store_up_to(ix, keys[i], map[keys[i]]) IN
         IF r.ret THEN r ELSE StoreAny(r.ix, map, keys, i + 1)

\* lines 165-169
store_all_up_to(ix, map) == StoreAny(ix, map, Ascending(DOMAIN map), 1)

\* mutant: the script is stored one index further than the next one
derive_new_skips_index(ix, keychain) ==
    LET next == next_derivation_index(ix, keychain) + 1
        new_spk == DeriveSpk(ix.keychains[keychain], next)
    IN  [ret |-> <<next, new_spk>>, ix |-> add_spk(ix, <<keychain, next>>, new_spk)]

\* lines 212-234, for a keychain that has been added, as [ret, ix]
derive_new(ix, keychain) ==
    LET next == next_derivation_index(ix, keychain)
        new_spk == DeriveSpk(ix.keychains[keychain], next)
    IN  [ret |-> <<next, new_spk>>, ix |-> add_spk(ix, <<keychain, next>>, new_spk)]

\* mutant: the last unused script of the keychain is taken, not the first
derive_next_unused_last(ix, keychain) ==
    IF keychain_unused(ix, keychain) = {}
    THEN derive_new(ix, keychain)
    ELSE LET i == CHOOSE x \in keychain_unused(ix, keychain) :
                    \A y \in keychain_unused(ix, keychain) : x >= y
         IN  [ret |-> <<i, ix.script_pubkeys[<<keychain, i>>]>>, ix |-> ix]

\* lines 241-249, for a keychain that has been added, as [ret, ix]
derive_next_unused(ix, keychain) ==
    IF keychain_unused(ix, keychain) = {}
    THEN derive_new(ix, keychain)
    ELSE LET i == CHOOSE x \in keychain_unused(ix, keychain) :
                    \A y \in keychain_unused(ix, keychain) : x <= y
         IN  [ret |-> <<i, ix.script_pubkeys[<<keychain, i>>]>>, ix |-> ix]

---------------------------------------------------------------------------
(* Actions of the SparseChain *)

NoCall == [op |-> "none"]
NoRet == [kind |-> "none"]
Idle == call.op = "none"

SetChain(c) ==
    /\ checkpoints' = c.checkpoints
    /\ txid_by_height' = c.txid_by_height
    /\ txid_to_index' = c.txid_to_index
    /\ mempool' = c.mempool
    /\ checkpoint_limit' = c.checkpoint_limit

ApplyCheckpoint ==
    /\ Idle
    /\ \E cand \in Candidates :
        \E out \in apply_checkpoint_outcomes(Chain, cand) :
            /\ SetChain(out.chain)
            /\ call' = [op |-> "apply_checkpoint", cand |-> cand]
            /\ ret' = out.ret
            /\ UNCHANGED <<coinVars, keychainVars>>

TxidSeqs == UNION {[1 .. n -> Txids] : n \in 0 .. MaxTxids}

ApplyBlockTxs ==
    /\ Idle
    /\ \E block_id \in BlockIds, transactions \in TxidSeqs :
        \E out \in apply_block_txs_outcomes(Chain, block_id, transactions) :
            /\ SetChain(out.chain)
            /\ call' = [op |-> "apply_block_txs", block_id |-> block_id,
                        transactions |-> transactions,
                        matching_checkpoint |-> checkpoint_at(Chain, block_id.height)]
            /\ ret' = out.ret
            /\ UNCHANGED <<coinVars, keychainVars>>

DisconnectBlock ==
    /\ Idle
    /\ UNCHANGED <<coinVars, keychainVars>>
    /\ \E block_id \in BlockIds :
        \/ /\ SetChain(disconnect_block(Chain, block_id))
           /\ call' = [op |-> "disconnect_block", block_id |-> block_id]
           /\ ret' = [kind |-> "Unit"]
        \/ /\ disconnect_matches(Chain, block_id)
           /\ invalidate_can_panic(Chain, block_id.height)
           /\ SetChain(invalidate_checkpoints_panic(Chain, block_id.height))
           /\ call' = [op |-> "disconnect_block", block_id |-> block_id]
           /\ ret' = ResPanic

ClearMempool ==
    /\ Idle
    /\ mempool # {}
    /\ mempool' = {}
    /\ call' = [op |-> "clear_mempool"]
    /\ ret' = [kind |-> "Unit"]
    /\ UNCHANGED <<checkpoints, txid_by_height, txid_to_index, checkpoint_limit>>
    /\ UNCHANGED <<coinVars, keychainVars>>

SetCheckpointLimit ==
    /\ Idle
    /\ \E limit \in Option(0 .. MaxLimit) :
        /\ SetChain(set_checkpoint_limit(Chain, limit))
        /\ call' = [op |-> "set_checkpoint_limit", limit |-> limit]
        /\ ret' = [kind |-> "Unit"]
        /\ UNCHANGED <<coinVars, keychainVars>>

PruneCheckpoints ==
    /\ Idle
    /\ SetChain(prune_checkpoints(Chain))
    /\ call' = [op |-> "prune_checkpoints"]
    /\ ret' = [kind |-> "Pruned", removed |-> prune_return(Chain)]
    /\ UNCHANGED <<coinVars, keychainVars>>

TransactionAt ==
    /\ Idle
    /\ \E txid \in Txids :
        /\ call' = [op |-> "transaction_at", txid |-> txid]
        /\ ret' = [kind |-> "Height", value |-> transaction_at(Chain, txid)]
    /\ UNCHANGED <<chainVars, coinVars, keychainVars>>

\* the caller takes the result; a panic has unwound out of the program instead
Return ==
    /\ ~Idle
    /\ ret.kind # "Panic"
    /\ call' = NoCall
    /\ ret' = NoRet
    /\ UNCHANGED <<chainVars, coinVars, keychainVars>>

SetChainInit ==
    /\ checkpoints = DefaultChain.checkpoints
    /\ txid_by_height = DefaultChain.txid_by_height
    /\ txid_to_index = DefaultChain.txid_to_index
    /\ mempool = DefaultChain.mempool
    /\ checkpoint_limit = DefaultChain.checkpoint_limit

\* the subsystems a specification leaves aside stay as constructed
CoinInitDefault ==
    /\ candidates = <<>>
    /\ selected = {}
    /\ opts = from_weights(0, 0)

KeychainInitDefault ==
    /\ keychains = EmptyMap
    /\ script_pubkeys = EmptyMap
    /\ txouts = {}
    /\ derived = {}

Init ==
    /\ SetChainInit
    /\ CoinInitDefault
    /\ KeychainInitDefault
    /\ call = NoCall
    /\ ret = NoRet

Next ==
    \/ ApplyCheckpoint
    \/ ApplyBlockTxs
    \/ DisconnectBlock
    \/ ClearMempool
    \/ SetCheckpointLimit
    \/ PruneCheckpoints
    \/ TransactionAt
    \/ Return

Spec == Init /\ [][Next]_vars

---------------------------------------------------------------------------
(* Actions of the CoinSelector *)

CandidateValues == {100, 300}
CandidateWeights == {0, 36}
WeightedValues == [value : CandidateValues, weight : CandidateWeights]
CandidateLists == UNION {[0 .. n - 1 -> WeightedValues] : n \in 0 .. MaxCandidates}
Feerates == {Feerate(0, 1), Feerate(1, 2), Feerate(1, 1)}
CoinSelectorOpts ==
    [target_value : {0, 150, 250}, target_feerate : Feerates, min_absolute_fee : {0, 260},
     base_weight : {0, 1}, drain_weight : {0, 50}, starting_input_value : {0, 150}]

SetSelector(cs) ==
    /\ candidates' = cs.candidates
    /\ selected' = cs.selected
    /\ opts' = cs.opts

\* select(index): assert!(index < self.candidates.len())
Select ==
    /\ Idle
    /\ \E index \in 0 .. MaxCandidates :
        /\ call' = [op |-> "select", index |-> index]
        /\ IF index \in DOMAIN candidates
           THEN SetSelector(select(Selector, index)) /\ ret' = [kind |-> "Unit"]
           ELSE UNCHANGED coinVars /\ ret' = ResPanic
    /\ UNCHANGED <<chainVars, keychainVars>>

Finish ==
    /\ Idle
    /\ call' = [op |-> "finish"]
    /\ ret' \in finish_outcomes(Selector)
    /\ UNCHANGED <<chainVars, coinVars, keychainVars>>

SelectUntilFinished ==
    /\ Idle
    /\ call' = [op |-> "select_until_finished", selected |-> selected]
    /\ SetSelector(select_until_finished(Selector).cs)
    /\ ret' = select_until_finished(Selector).ret
    /\ UNCHANGED <<chainVars, keychainVars>>

\* CoinSelector::new(candidates, opts) (lines 68-74)
InitCoin ==
    /\ SetChainInit
    /\ KeychainInitDefault
    /\ candidates \in CandidateLists
    /\ selected = {}
    /\ opts \in CoinSelectorOpts
    /\ call = NoCall
    /\ ret = NoRet

NextCoin ==
    \/ Select
    \/ Finish
    \/ SelectUntilFinished
    \/ Return

SpecCoin == InitCoin /\ [][NextCoin]_vars

---------------------------------------------------------------------------
(* Actions of the KeychainTxOutIndex *)

SetKIndex(ix) ==
    /\ keychains' = ix.keychains
    /\ script_pubkeys' = ix.script_pubkeys
    /\ txouts' = ix.txouts

AddKeychain ==
    /\ Idle
    /\ \E keychain \in KeychainIds, descriptor \in Descriptors :
        /\ SetKIndex(add_keychain(KIndex, keychain, descriptor))
        /\ call' = [op |-> "add_keychain", keychain |-> keychain, descriptor |-> descriptor]
        /\ ret' = [kind |-> "Unit"]
    /\ UNCHANGED <<chainVars, coinVars, derived>>

StoreUpTo ==
    /\ Idle
    /\ \E keychain \in KeychainIds, up_to \in 0 .. MaxIndex :
        /\ SetKIndex(store_up_to(KIndex, keychain, up_to).ix)
        /\ call' = [op |-> "store_up_to", keychain |-> keychain, up_to |-> up_to,
                    again |-> FALSE, first |-> FALSE]
        /\ ret' = [kind |-> "Bool", value |-> store_up_to(KIndex, keychain, up_to).ret]
    /\ UNCHANGED <<chainVars, coinVars, derived>>

\* the caller repeats the store_up_to it has just made; `first` keeps what the first
\* call returned
StoreUpToAgain ==
    /\ call.op = "store_up_to"
    /\ ~call.again
    /\ SetKIndex(store_up_to(KIndex, call.keychain, call.up_to).ix)
    /\ call' = [call EXCEPT !.again = TRUE, !.first = ret.value]
    /\ ret' = [kind |-> "Bool", value |-> store_up_to(KIndex, call.keychain, call.up_to).ret]
    /\ UNCHANGED <<chainVars, coinVars, derived>>

\* the BTreeMap<K, u32> arguments of store_all_up_to
UpToMaps == UNION {[ks -> 0 .. MaxIndex] : ks \in SUBSET KeychainIds}

StoreAllUpTo ==
    /\ Idle
    /\ \E map \in UpToMaps :
        /\ SetKIndex(store_all_up_to(KIndex, map).ix)
        /\ call' = [op |-> "store_all_up_to", keychains |-> map]
        /\ ret' = [kind |-> "Bool", value |-> store_all_up_to(KIndex, map).ret]
    /\ UNCHANGED <<chainVars, coinVars, derived>>

\* derive_new panics for a keychain that was never added (lines 215-218)
DeriveNew ==
    /\ Idle
    /\ \E keychain \in KeychainIds :
        /\ next_derivation_index(KIndex, keychain) <= MaxIndex
        /\ call' = [op |-> "derive_new", keychain |-> keychain]
        /\ IF keychain \in DOMAIN keychains
           THEN /\ SetKIndex(derive_new(KIndex, keychain).ix)
                /\ ret' = [kind |-> "Derived", value |-> derive_new(KIndex, keychain).ret]
                /\ derived' = derived \cup {<<keychain, derive_new(KIndex, keychain).ret[2]>>}
           ELSE /\ UNCHANGED keychainVars
                /\ ret' = ResPanic
    /\ UNCHANGED <<chainVars, coinVars>>

\* derive_next_unused: an unused stored script if there is one, else derive_new,
\* which panics for a keychain that was never added
DeriveNextUnused ==
    /\ Idle
    /\ \E keychain \in KeychainIds :
        /\ call' = [op |-> "derive_next_unused", keychain |-> keychain]
        /\ IF keychain_unused(KIndex, keychain) # {}
           THEN /\ UNCHANGED keychainVars
                /\ ret' = [kind |-> "Derived",
                           value |-> derive_next_unused(KIndex, keychain).ret]
           ELSE /\ next_derivation_index(KIndex, keychain) <= MaxIndex
                /\ IF keychain \in DOMAIN keychains
                   THEN /\ SetKIndex(derive_next_unused(KIndex, keychain).ix)
                        /\ ret' = [kind |-> "Derived",
                                   value |-> derive_next_unused(KIndex, keychain).ret]
                        /\ derived' =
                             derived \cup {<<keychain, derive_next_unused(KIndex, keychain).ret[2]>>}
                   ELSE /\ UNCHANGED keychainVars
                        /\ ret' = ResPanic
    /\ UNCHANGED <<chainVars, coinVars>>

\* the scripts a scanned output can pay to: every script a descriptor of the model
\* derives, and one that belongs to nobody
ScannedScripts ==
    {DeriveSpk(d, i) : d \in Descriptors, i \in 0 .. MaxIndex}
        \cup {[descriptor |-> "other", index |-> 0]}

\* scan_txout(op, txout) (lines 88-90)
ScanTxout ==
    /\ Idle
    /\ \E spk \in ScannedScripts :
        /\ SetKIndex(scan_txout(KIndex, spk))
        /\ call' = [op |-> "scan_txout", spk |-> spk]
        /\ ret' = [kind |-> "Unit"]
    /\ UNCHANGED <<chainVars, coinVars, derived>>

\* scan(txouts) (lines 81-83) over an object with up to MaxScanned outputs
Scan ==
    /\ Idle
    /\ \E spks \in {S \in SUBSET ScannedScripts : Cardinality(S) <= MaxScanned} :
        /\ SetKIndex(scan(KIndex, spks))
        /\ call' = [op |-> "scan", spks |-> spks]
        /\ ret' = [kind |-> "Unit"]
    /\ UNCHANGED <<chainVars, coinVars, derived>>

\* KeychainTxOutIndex::default() (lines 52-59)
InitKeychain ==
    /\ SetChainInit
    /\ CoinInitDefault
    /\ KeychainInitDefault
    /\ call = NoCall
    /\ ret = NoRet

NextKeychain ==
    \/ AddKeychain
    \/ StoreUpTo
    \/ StoreUpToAgain
    \/ StoreAllUpTo
    \/ DeriveNew
    \/ DeriveNextUnused
    \/ ScanTxout
    \/ Scan
    \/ Return

SpecKeychain == InitKeychain /\ [][NextKeychain]_vars

---------------------------------------------------------------------------
(* Properties of the SparseChain *)

\* the step is a call of `op` made from the idle state that did not panic
Called(op) == Idle /\ call'.op = op /\ ret'.kind # "Panic"

\* the candidate lists txid with this confirmation
Lists(cand, txid, conf) == \E i \in 1 .. Len(cand.txids) : cand.txids[i] = <<txid, conf>>

\* C1: when apply_checkpoint returns Stale or Inconsistent, checkpoints,
\* txid_by_height, txid_to_index, mempool and checkpoint_limit are what they were
\* before the call.
C1_FailureLeavesChainUnchanged ==
    [][(Called("apply_checkpoint") /\ ret'.kind \in {"Stale", "Inconsistent"})
        => UNCHANGED chainVars]_vars

\* C1 witness: a populated chain has just rejected a candidate at the last check
\* before the mutation (the invalidation hash), after both earlier checks passed.
C1_Witness ==
    /\ call.op = "apply_checkpoint"
    /\ ret.kind = "Stale"
    /\ ret.reason = "InvalidationHashNotMatching"
    /\ IsSome(call.cand.base_tip)
    /\ call.cand.txids # <<>>
    /\ txid_by_height # {}
    /\ mempool # {}

\* C2: txid_to_index maps txid to h exactly when (h, txid) is in txid_by_height.
C2_ChainBijection ==
    ret.kind # "Panic" =>
        \A t \in Txids, h \in Heights :
            (t \in DOMAIN txid_to_index /\ txid_to_index[t] = h) <=> (<<h, t>> \in txid_by_height)

\* C3: no txid is both in the mempool and in the confirmed index.
C3_MempoolDisjoint ==
    ret.kind # "Panic" =>
        \A t \in mempool :
            /\ t \notin DOMAIN txid_to_index
            /\ \A h \in Heights : <<h, t>> \notin txid_by_height

\* C4: every confirmed pair (h, txid) has h <= latest_checkpoint().height, so a tip
\* exists whenever the confirmed index is not empty.
C4_HeightBound ==
    ret.kind # "Panic" =>
        \A p \in txid_by_height :
            /\ IsSome(latest_checkpoint(Chain))
            /\ p[1] <= Unwrap(latest_checkpoint(Chain)).height

C8_PruneKeepsMostRecent ==
    [][Called("prune_checkpoints")
        => LET n == checkpoint_limit
               keys == DOMAIN checkpoints
               recent == {h \in keys : Cardinality({x \in keys : x > h}) <= n}
           IN  /\ UNCHANGED <<txid_by_height, txid_to_index, mempool, checkpoint_limit>>
               /\ IF n > 0 /\ Cardinality(keys) > n + 1
                  THEN /\ checkpoints' = [h \in recent |-> checkpoints[h]]
                       /\ ret'.removed = Some([h \in keys \ recent |-> checkpoints[h]])
                  ELSE /\ checkpoints' = checkpoints
                       /\ ret'.removed = None
       ]_vars

\* the step invalidates from a height at or below h
InvalidatesAtOrBelow(h) ==
    \/ /\ call'.op = "apply_checkpoint"
       /\ ret'.kind = "Ok"
       /\ IsSome(call'.cand.invalidate)
       /\ Unwrap(call'.cand.invalidate).height <= h
    \/ /\ call'.op = "apply_block_txs"
       /\ ret'.kind = "Ok"
       /\ call'.block_id.height <= h
       /\ IsSome(BlockCandidate(Chain, call'.block_id, call'.transactions).invalidate)
    \/ /\ call'.op = "disconnect_block"
       /\ call'.block_id.height <= h
       /\ disconnect_matches(Chain, call'.block_id)

\* the candidate's i-th entry names t with anything but Some(h), no invalidation
\* covers h, and no check before the consistency check of that entry fails
MovesUncovered(c, cand, i, t, h) ==
    /\ cand.txids[i][1] = t
    /\ cand.txids[i][2] # Some(h)
    /\ (IsSome(cand.invalidate) => Unwrap(cand.invalidate).height > h)
    /\ ~BaseTipFails(c, cand)
    /\ \A j \in 1 .. i - 1 : CheckTxid(c, cand, cand.txids[j]).kind = "Pass"
    /\ ~(IsSome(cand.txids[i][2]) /\ Unwrap(cand.txids[i][2]) > cand.new_tip.height)

\* C10: a txid confirmed at height h keeps that height, and stays out of the
\* mempool, over every step that is not an invalidation at a height <= h; and an
\* apply_checkpoint that gives it another height or None without such an
\* invalidation returns Inconsistent{txid, conflicts_with: txid}.
C10_ConfirmedHeightIsStable ==
    [][\A t \in DOMAIN txid_to_index :
        LET h == txid_to_index[t] IN
        (~Idle \/ ret'.kind # "Panic") =>
            /\ InvalidatesAtOrBelow(h)
                \/ /\ t \in DOMAIN txid_to_index'
                   /\ txid_to_index'[t] = h
                   /\ <<h, t>> \in txid_by_height'
                   /\ (t \in mempool' => t \in mempool)
            /\ (Idle /\ call'.op = "apply_checkpoint") =>
                \A i \in 1 .. Len(call'.cand.txids) :
                    MovesUncovered(Chain, call'.cand, i, t, h) => ret' = ResInconsistent(t)
       ]_vars

\* C11: apply_checkpoint reports the first failing check in protocol order: a base
\* tip that is Some and is not the current tip gives BaseTipNotMatching{got: current
\* tip, expected: base_tip} whatever else the candidate holds; otherwise the first
\* entry of txids, in sequence order, that is too high or inconsistent decides, and
\* too high gives TxidHeightGreaterThanNewTip even for a txid the invalidation covers;
\* InvalidationHashNotMatching is returned only when the base tip check and every
\* txid check passed and the hash stored at invalidate.height is absent or differs.
C11_FirstFailingCheck ==
    [][(Idle /\ call'.op = "apply_checkpoint")
        => LET cand == call'.cand
               tip == latest_checkpoint(Chain)
               baseFails == IsSome(cand.base_tip) /\ tip # cand.base_tip
               TooHigh(i) ==
                    /\ IsSome(cand.txids[i][2])
                    /\ Unwrap(cand.txids[i][2]) > cand.new_tip.height
               Conflicts(i) ==
                    LET t == cand.txids[i][1] IN
                    /\ t \in DOMAIN txid_to_index
                    /\ ~(IsSome(cand.invalidate)
                            /\ txid_to_index[t] >= Unwrap(cand.invalidate).height)
                    /\ cand.txids[i][2] # Some(txid_to_index[t])
               bad == {i \in 1 .. Len(cand.txids) : TooHigh(i) \/ Conflicts(i)}
               first == CHOOSE i \in bad : \A j \in bad : i <= j
           IN  /\ baseFails => ret' = ResBaseTipNotMatching(tip, Unwrap(cand.base_tip))
               /\ (~baseFails /\ bad # {}) =>
                    IF TooHigh(first)
                    THEN ret' = ResTxidHeightGreaterThanNewTip(cand.new_tip, cand.txids[first])
                    ELSE ret' = ResInconsistent(cand.txids[first][1])
               /\ (ret'.kind = "Stale" /\ ret'.reason = "InvalidationHashNotMatching") =>
                    /\ ~baseFails
                    /\ bad = {}
                    /\ IsSome(cand.invalidate)
                    /\ \/ Unwrap(cand.invalidate).height \notin DOMAIN checkpoints
                       \/ checkpoints[Unwrap(cand.invalidate).height]
                            # Unwrap(cand.invalidate).hash
       ]_vars

\* C11 witness: a candidate with a matching base tip was rejected for a txid above
\* its new tip, although that txid is confirmed at a height the candidate's
\* invalidation covers and the invalidation hash would not have matched either.
C11_Witness ==
    /\ call.op = "apply_checkpoint"
    /\ ret.kind = "Stale"
    /\ ret.reason = "TxidHeightGreaterThanNewTip"
    /\ IsSome(call.cand.base_tip)
    /\ IsSome(call.cand.invalidate)
    /\ ret.txid[1] \in DOMAIN txid_to_index
    /\ txid_to_index[ret.txid[1]] >= Unwrap(call.cand.invalidate).height
    /\ InvalidationFails(Chain, call.cand)

\* C12: disconnect_block({h, hash}) takes effect exactly when a checkpoint at h with
\* that hash is stored: then no checkpoint at or above h and no confirmed pair at or
\* above h remains, in txid_by_height or in txid_to_index, the mempool is empty, and
\* the checkpoints and the confirmed pairs below h (in both structures) are what
\* they were; otherwise the whole state is unchanged.
C12_DisconnectBlockCascade ==
    [][Called("disconnect_block")
        => LET b == call'.block_id IN
           IF b.height \in DOMAIN checkpoints /\ checkpoints[b.height] = b.hash
           THEN /\ \A h \in DOMAIN checkpoints' : h < b.height
                /\ \A p \in txid_by_height' : p[1] < b.height
                /\ \A t \in DOMAIN txid_to_index' : txid_to_index'[t] < b.height
                /\ mempool' = {}
                /\ checkpoints' = [h \in {x \in DOMAIN checkpoints : x < b.height}
                                        |-> checkpoints[h]]
                /\ txid_by_height' = {p \in txid_by_height : p[1] < b.height}
                /\ txid_to_index' =
                        [t \in {x \in DOMAIN txid_to_index : txid_to_index[x] < b.height}
                            |-> txid_to_index[t]]
           ELSE UNCHANGED chainVars
       ]_vars

\* the chain and the result of the step are those of apply_checkpoint(cand)
AppliesAs(cand) ==
    /\ ret' = apply_checkpoint(Chain, cand).ret
    /\ checkpoints' = apply_checkpoint(Chain, cand).chain.checkpoints
    /\ txid_by_height' = apply_checkpoint(Chain, cand).chain.txid_by_height
    /\ txid_to_index' = apply_checkpoint(Chain, cand).chain.txid_to_index
    /\ mempool' = apply_checkpoint(Chain, cand).chain.mempool
    /\ checkpoint_limit' = apply_checkpoint(Chain, cand).chain.checkpoint_limit

\* a different hash is stored at the height of b
ConflictsWithStored(b) == b.height \in DOMAIN checkpoints /\ checkpoints[b.height] # b.hash

\* C15 as stated: apply_block_txs(block_id, txids) returns and leaves what
\* apply_checkpoint does for {txids: each txid with Some(block_id.height), base_tip:
\* the current tip, new_tip: block_id, invalidate: Some(block_id) if a checkpoint
\* with another hash is stored at block_id.height, else None}.
C15_BlockTxsInvalidatesBlockId ==
    [][Called("apply_block_txs")
        => LET b == call'.block_id
               txs == call'.transactions
           IN  AppliesAs([txids |-> [i \in 1 .. Len(txs) |-> <<txs[i], Some(b.height)>>],
                          base_tip |-> latest_checkpoint(Chain),
                          invalidate |-> IF ConflictsWithStored(b) THEN Some(b) ELSE None,
                          new_tip |-> b])
       ]_vars

\* C15 amended: the same with invalidate: Some(the checkpoint stored at
\* block_id.height) if its hash differs from block_id.hash, else None.
C15_BlockTxsInvalidatesStored ==
    [][Called("apply_block_txs")
        => LET b == call'.block_id
               txs == call'.transactions
           IN  AppliesAs([txids |-> [i \in 1 .. Len(txs) |-> <<txs[i], Some(b.height)>>],
                          base_tip |-> latest_checkpoint(Chain),
                          invalidate |->
                            IF ConflictsWithStored(b)
                            THEN Some(BlockId(b.height, checkpoints[b.height]))
                            ELSE None,
                          new_tip |-> b])
       ]_vars

\* C15 witness: apply_block_txs found another hash stored at the block's height,
\* returned Ok, and the block's hash and txid are now recorded at that height.
C15_Witness ==
    /\ call.op = "apply_block_txs"
    /\ ret.kind = "Ok"
    /\ IsSome(call.matching_checkpoint)
    /\ Unwrap(call.matching_checkpoint).hash # call.block_id.hash
    /\ checkpoint_at(Chain, call.block_id.height) = Some(call.block_id)
    /\ Len(call.transactions) > 0
    /\ <<call.block_id.height, call.transactions[1]>> \in txid_by_height

\* C16: transaction_at(txid) is Some(Some(h)) exactly when the txid is confirmed at h,
\* Some(None) exactly when it is in the mempool and not confirmed, and None exactly
\* when it is in neither.
C16_TransactionAtReportsStatus ==
    call.op = "transaction_at" =>
        LET t == call.txid
            confirmed == t \in DOMAIN txid_to_index
        IN  /\ \A h \in Heights :
                    (ret.value = Some(Some(h))) <=> (confirmed /\ txid_to_index[t] = h)
            /\ (ret.value = Some(None)) <=> (t \in mempool /\ ~confirmed)
            /\ (ret.value = None) <=> (t \notin mempool /\ ~confirmed)

\* C23: when apply_checkpoint returns Ok, whatever the checkpoint limit and the state
\* before (one that stores another hash at new_tip.height included),
\* checkpoint_at(new_tip.height) is new_tip afterwards.
C23_NewTipRecorded ==
    [][(Called("apply_checkpoint") /\ ret'.kind = "Ok")
        => /\ call'.cand.new_tip.height \in DOMAIN checkpoints'
           /\ checkpoints'[call'.cand.new_tip.height] = call'.cand.new_tip.hash
       ]_vars

---------------------------------------------------------------------------
(* Properties of the CoinSelector *)

\* the selection states select_until_finished goes through from cs: the current
\* selection, then one more unselected index at a time, ascending
SelectionAfter(cs, k) ==
    [cs EXCEPT !.selected = cs.selected \cup {unselected(cs)[j] : j \in 1 .. k}]

\* the result of the first of those states at which finish() is Some, else None
FirstFinished(cs) ==
    LET ks == {k \in 0 .. Len(unselected(cs)) : finish(SelectionAfter(cs, k)).kind = "Some"}
    IN  IF ks = {} THEN NoSelection
        ELSE finish(SelectionAfter(cs, CHOOSE k \in ks : \A j \in ks : k <= j))

\* C6: select_until_finished returns the Selection of the first state of the
\* sequence (the current selection, then plus each further unselected index in
\* ascending order) whose finish() is Some, and None only if finish() is None in
\* every one of them, the state with every candidate selected included.
C6_SelectUntilFinishedFirstSuccess ==
    [][Called("select_until_finished") => ret' = FirstFinished(Selector)]_vars

\* the smallest n with n >= num * weight / den
CeilOfProduct(num, den, weight) ==
    CHOOSE n \in 0 .. num * weight : n * den >= num * weight /\ (n - 1) * den < num * weight

\* the funding-feasibility algorithm as C7 states it
FundingFeasibility(cs) ==
    LET V == current_value(cs)
        W == current_weight(cs)
        tv == cs.opts.target_value
        r == cs.opts.target_feerate
        mf == cs.opts.min_absolute_fee
        dw == cs.opts.drain_weight
        diff == V - tv
        fee_with_change == Max(CeilOfProduct(r.num, r.den, W + dw), mf)
        fee_no_change == Max(CeilOfProduct(r.num, r.den, W), mf)
    IN  IF V < tv \/ diff * r.den < r.num * W \/ diff < mf THEN [kind |-> "None"]
        ELSE IF diff >= fee_with_change
        THEN [kind |-> "Some", selected |-> cs.selected, use_change |-> TRUE,
              fee |-> fee_with_change, excess |-> diff - fee_with_change,
              total_weight |-> W + dw]
        ELSE IF V >= fee_no_change + tv
        THEN [kind |-> "Some", selected |-> cs.selected, use_change |-> FALSE,
              fee |-> fee_no_change, excess |-> V - fee_no_change - tv,
              total_weight |-> W]
        ELSE [kind |-> "None"]

\* C7: finish() returns what the funding-feasibility algorithm gives for the current
\* value and weight: None below the target value, feerate or minimum fee, else the
\* change branch when diff >= fee_with_change, else the no-change branch; the
\* returned selected set is the current selection.
C7_FinishIsFundingFeasibility ==
    call.op = "finish" => ret = FundingFeasibility(Selector)

\* C7 witness: finish() took the no-change branch with a fee rounded up from a
\* fractional product (0.5 sat/wu over an odd weight) and a positive excess.
C7_Witness ==
    /\ call.op = "finish"
    /\ ret.kind = "Some"
    /\ ~ret.use_change
    /\ opts.target_feerate = Feerate(1, 2)
    /\ ret.total_weight % 2 = 1
    /\ ret.fee * 2 = ret.total_weight + 1
    /\ ret.excess > 0
    /\ selected # {}

\* the value and the weight of the current selection, from the fields
SelectedValue ==
    opts.starting_input_value + SumOver(selected, [i \in selected |-> candidates[i].value])
SelectedWeight ==
    opts.base_weight
        + SumOver(selected, [i \in selected |-> candidates[i].weight + TXIN_BASE_WEIGHT])

\* C13 as stated: when finish() returns Some(s), current_value = target_value + s.fee
\* + (s.excess if s.use_change else 0), and when s.use_change is false also
\* current_value - s.fee >= target_value and s.excess = current_value - s.fee -
\* target_value.
C13_EnergyBalanceWithoutExcess ==
    (call.op = "finish" /\ ret.kind = "Some") =>
        /\ SelectedValue
             = opts.target_value + ret.fee + (IF ret.use_change THEN ret.excess ELSE 0)
        /\ ~ret.use_change =>
             /\ SelectedValue - ret.fee >= opts.target_value
             /\ ret.excess = SelectedValue - ret.fee - opts.target_value

\* C13 amended: when finish() returns Some(s), current_value = target_value + s.fee
\* + s.excess whether s.use_change is true or false, and when s.use_change is false
\* also current_value - s.fee >= target_value and s.excess = current_value - s.fee -
\* target_value.
C13_EnergyBalance ==
    (call.op = "finish" /\ ret.kind = "Some") =>
        /\ SelectedValue = opts.target_value + ret.fee + ret.excess
        /\ ~ret.use_change =>
             /\ SelectedValue - ret.fee >= opts.target_value
             /\ ret.excess = SelectedValue - ret.fee - opts.target_value

\* C13 witness: finish() returned a selection without change for a positive target,
\* with a positive fee and a positive excess, from a positive starting value.
C13_Witness ==
    /\ call.op = "finish"
    /\ ret.kind = "Some"
    /\ ~ret.use_change
    /\ ret.excess > 0
    /\ ret.fee > 0
    /\ opts.target_value > 0
    /\ opts.starting_input_value > 0
    /\ selected # {}

\* C14: when finish() returns Some(s), s.fee >= target_feerate * s.total_weight - 1
\* and s.fee >= min_absolute_fee, where s.total_weight is the current weight plus
\* drain_weight if s.use_change and the current weight otherwise.
C14_FeerateSatisfied ==
    (call.op = "finish" /\ ret.kind = "Some") =>
        /\ ret.total_weight
             = SelectedWeight + (IF ret.use_change THEN opts.drain_weight ELSE 0)
        /\ ret.fee * opts.target_feerate.den
             >= opts.target_feerate.num * ret.total_weight - opts.target_feerate.den
        /\ ret.fee >= opts.min_absolute_fee

\* C14 witness: finish() returned a selection with change whose fee is the minimum
\* absolute fee, above what the positive feerate asks for the total weight.
C14_Witness ==
    /\ call.op = "finish"
    /\ ret.kind = "Some"
    /\ ret.use_change
    /\ opts.drain_weight > 0
    /\ opts.target_feerate.num > 0
    /\ opts.min_absolute_fee > 0
    /\ ret.fee = opts.min_absolute_fee
    /\ ret.fee * opts.target_feerate.den > opts.target_feerate.num * ret.total_weight
    /\ selected # {}

\* the three guards of finish(), the feerate as an exact rational:
\* current_value >= target_value, (current_value - target_value) / current_weight >=
\* target_feerate, current_value - target_value >= min_absolute_fee
GuardsPass ==
    /\ SelectedValue >= opts.target_value
    /\ (SelectedValue - opts.target_value) * opts.target_feerate.den
            >= opts.target_feerate.num * SelectedWeight
    /\ SelectedValue - opts.target_value >= opts.min_absolute_fee

\* C25: in finish(), once the three guards pass, current_value -
\* target_fee_without_change does not go below zero and the last None is not
\* reached: finish() returns Some exactly when the three guards pass, and never
\* panics on the subtraction nor returns a wrapped excess.
C25_GuardsDecideFinish ==
    call.op = "finish" =>
        /\ ret.kind # "Panic"
        /\ (ret.kind = "Some") <=> GuardsPass
        /\ GuardsPass =>
             SelectedValue
                >= Max(CeilOfProduct(opts.target_feerate.num, opts.target_feerate.den,
                                     SelectedWeight),
                       opts.min_absolute_fee)
        /\ ret.kind = "Some" => ret.excess >= 0

\* C25 witness: the guards passed with nothing to spare: finish() returned a
\* selection without change whose fee is the whole of current_value - target_value.
C25_Witness ==
    /\ call.op = "finish"
    /\ ret.kind = "Some"
    /\ ~ret.use_change
    /\ ret.excess = 0
    /\ ret.fee > 0
    /\ ret.fee = SelectedValue - opts.target_value
    /\ opts.target_feerate.num > 0
    /\ selected # {}

---------------------------------------------------------------------------
(* Properties of the KeychainTxOutIndex *)

\* C9: store_all_up_to(map) stores every index 0..=n for every entry (k, n) whose
\* keychain is registered with a wildcard descriptor, and returns true exactly when
\* at least one script was added.
C9_StoreAllUpToStoresEveryEntry ==
    [][Called("store_all_up_to")
        => LET map == call'.keychains IN
           /\ \A k \in DOMAIN map :
                (k \in DOMAIN keychains /\ keychains[k].wildcard)
                    => \A i \in 0 .. map[k] : <<k, i>> \in DOMAIN script_pubkeys'
           /\ ret'.value = (DOMAIN script_pubkeys' # DOMAIN script_pubkeys)
       ]_vars

\* the indexes stored under keychain k in the tag -> script map spks, and the index
\* after the highest of them (0 if there is none)
IndexesOf(spks, k) == {tag[2] : tag \in {u \in DOMAIN spks : u[1] = k}}
NextIndexOf(spks, k) ==
    IF IndexesOf(spks, k) = {} THEN 0
    ELSE (CHOOSE i \in IndexesOf(spks, k) : \A j \in IndexesOf(spks, k) : j <= i) + 1

\* C17: for every keychain k, next_derivation_index(k) never decreases, whatever is
\* called: add_keychain (also with another descriptor for k), store_up_to,
\* store_all_up_to, derive_new, derive_next_unused, scan, scan_txout.
C17_NextDerivationIndexMonotone ==
    [][\A k \in KeychainIds :
        /\ next_derivation_index(KIndex, k) = NextIndexOf(script_pubkeys, k)
        /\ NextIndexOf(script_pubkeys', k) >= NextIndexOf(script_pubkeys, k)]_vars

\* C17 witness: a keychain whose next index is 2 has just been added again with a
\* descriptor other than the one its stored scripts were derived from.
C17_Witness ==
    /\ call.op = "add_keychain"
    /\ next_derivation_index(KIndex, call.keychain) = 2
    /\ script_pubkeys[<<call.keychain, 1>>].descriptor # call.descriptor.id
    /\ keychains[call.keychain] = call.descriptor

\* C18: store_up_to(k, n) called twice in a row with the same k and n (k known or
\* not, wildcard or not): the second call leaves the tag -> script map, and the rest
\* of the index, unchanged and returns false.
C18_StoreUpToIdempotent ==
    [][(call.op = "store_up_to" /\ call'.op = "store_up_to" /\ call'.again)
        => /\ ret'.value = FALSE
           /\ script_pubkeys' = script_pubkeys
           /\ keychains' = keychains
           /\ txouts' = txouts
       ]_vars

\* C18 witness: the first store_up_to(k, 1) stored scripts (it returned true), the
\* same call was made again and returned false.
C18_Witness ==
    /\ call.op = "store_up_to"
    /\ call.again
    /\ call.first = TRUE
    /\ call.up_to = 1
    /\ ret.value = FALSE
    /\ <<call.keychain, 1>> \in DOMAIN script_pubkeys

\* C19: store_up_to(k, n) on a registered keychain adds exactly the tags (k, i) for i
\* from next_derivation_index(k) through end (n for a wildcard descriptor, else 0),
\* each with the script derived at i, leaves every tag stored before (of k and of
\* every other keychain) as it was, and returns true exactly when it added a tag.
C19_StoreUpToAddsExactRange ==
    [][(call'.op = "store_up_to" /\ (Idle \/ call.op = "store_up_to")
            /\ call'.keychain \in DOMAIN keychains)
        => LET k == call'.keychain
               end == IF keychains[k].wildcard THEN call'.up_to ELSE 0
               added == {<<k, i>> : i \in NextIndexOf(script_pubkeys, k) .. end}
           IN  /\ DOMAIN script_pubkeys' = DOMAIN script_pubkeys \cup added
               /\ added \cap DOMAIN script_pubkeys = {}
               /\ \A tag \in DOMAIN script_pubkeys : script_pubkeys'[tag] = script_pubkeys[tag]
               /\ \A tag \in added : script_pubkeys'[tag] = DeriveSpk(keychains[k], tag[2])
               /\ ret'.value = (added # {})
               /\ ret'.value = FALSE <=> NextIndexOf(script_pubkeys, k) > end
       ]_vars

\* C19 witness: store_up_to(k, 1) returned true for a wildcard keychain while the
\* other keychain has stored scripts of its own, and both indexes of k are stored.
C19_Witness ==
    /\ call.op = "store_up_to"
    /\ ~call.again
    /\ ret.value = TRUE
    /\ call.up_to = 1
    /\ call.keychain \in DOMAIN keychains
    /\ keychains[call.keychain].wildcard
    /\ IndexesOf(script_pubkeys, call.keychain) = {0, 1}
    /\ \E k \in KeychainIds \ {call.keychain} : IndexesOf(script_pubkeys, k) # {}

\* C20: derive_new(k) on a registered keychain returns the index i that
\* next_derivation_index(k) had before the call, stores the script derived at i under
\* (k, i), raises next_derivation_index(k) by exactly 1, and returns a script pubkey
\* that no earlier derive_new(k) returned, with or without wildcard.
C20_DeriveNewReturnsNewScript ==
    [][Called("derive_new")
        => LET k == call'.keychain
               i == ret'.value[1]
               spk == ret'.value[2]
           IN  /\ i = NextIndexOf(script_pubkeys, k)
               /\ <<k, i>> \in DOMAIN script_pubkeys'
               /\ script_pubkeys'[<<k, i>>] = spk
               /\ spk = DeriveSpk(keychains[k], i)
               /\ NextIndexOf(script_pubkeys', k) = i + 1
               /\ <<k, spk>> \notin derived
       ]_vars

\* the indexes of keychain k that are stored and whose script no scanned output paid to
UnusedIndexesOf(k) ==
    {i \in IndexesOf(script_pubkeys, k) : script_pubkeys[<<k, i>>] \notin txouts}

\* C21: derive_next_unused(k) on a registered keychain returns the stored tag (k, i)
\* with the lowest index i whose script has not been seen on a scanned output, and
\* then leaves the index unchanged; only when k has no unused stored tag does it do
\* what derive_new(k) does: store and return the script at next_derivation_index(k).
C21_DeriveNextUnusedLowest ==
    [][(Called("derive_next_unused") /\ call'.keychain \in DOMAIN keychains)
        => LET k == call'.keychain
               i == ret'.value[1]
               spk == ret'.value[2]
           IN  /\ keychains' = keychains
               /\ txouts' = txouts
               /\ IF UnusedIndexesOf(k) # {}
                  THEN /\ i \in UnusedIndexesOf(k)
                       /\ \A j \in UnusedIndexesOf(k) : i <= j
                       /\ spk = script_pubkeys[<<k, i>>]
                       /\ script_pubkeys' = script_pubkeys
                  ELSE /\ i = NextIndexOf(script_pubkeys, k)
                       /\ spk = DeriveSpk(keychains[k], i)
                       /\ DOMAIN script_pubkeys' = DOMAIN script_pubkeys \cup {<<k, i>>}
                       /\ script_pubkeys'[<<k, i>>] = spk
                       /\ \A tag \in DOMAIN script_pubkeys :
                            script_pubkeys'[tag] = script_pubkeys[tag]
       ]_vars

\* C21 witness: derive_next_unused returned index 0 of a keychain that has two unused
\* stored scripts, while a script of the other keychain has been seen on an output.
C21_Witness ==
    /\ call.op = "derive_next_unused"
    /\ ret.kind = "Derived"
    /\ ret.value[1] = 0
    /\ UnusedIndexesOf(call.keychain) = {0, 1}
    /\ \E k \in KeychainIds \ {call.keychain} :
            /\ IndexesOf(script_pubkeys, k) # {}
            /\ UnusedIndexesOf(k) = {}

\* the step is a call of derive_new or store_up_to for a keychain never added
CallsWithUnknownKeychain(op) ==
    /\ Idle \/ (op = "store_up_to" /\ call.op = "store_up_to")
    /\ call'.op = op
    /\ call'.keychain \notin DOMAIN keychains

\* C22 as stated: derive_new and store_up_to with a keychain that was never added
\* terminate abnormally and return no value.
C22_UnknownKeychainIsFatal ==
    [][(CallsWithUnknownKeychain("derive_new") \/ CallsWithUnknownKeychain("store_up_to"))
        => ret'.kind = "Panic"]_vars

\* C22 amended: derive_new with a keychain that was never added terminates abnormally
\* and returns no value; store_up_to with such a keychain returns false; both leave
\* the index as it was.
C22_UnknownKeychainPanicsOrFalse ==
    [][/\ CallsWithUnknownKeychain("derive_new")
            => (ret'.kind = "Panic" /\ UNCHANGED <<keychains, script_pubkeys, txouts>>)
       /\ CallsWithUnknownKeychain("store_up_to")
            => /\ ret' = [kind |-> "Bool", value |-> FALSE]
               /\ UNCHANGED <<keychains, script_pubkeys, txouts>>
      ]_vars

\* C22 witness: store_up_to for a keychain that was never added has returned false
\* while the other keychain is registered and has scripts stored.
C22_Witness ==
    /\ call.op = "store_up_to"
    /\ call.keychain \notin DOMAIN keychains
    /\ ret = [kind |-> "Bool", value |-> FALSE]
    /\ DOMAIN script_pubkeys # {}

\* C24: the indexes stored for each keychain are 0..=derivation_index(k) without a
\* gap (or none), and every stored tag is of a keychain that has been added.
C24_StoredIndexesGapFree ==
    /\ \A k \in KeychainIds :
            \/ IndexesOf(script_pubkeys, k) = {}
            \/ /\ IsSome(derivation_index(KIndex, k))
               /\ IndexesOf(script_pubkeys, k) = 0 .. Unwrap(derivation_index(KIndex, k))
    /\ \A tag \in DOMAIN script_pubkeys : tag[1] \in DOMAIN keychains

\* C24 witness: both keychains hold indexes 0 and 1, one of them filled by
\* derive_new after a store_up_to, and a stored script has been seen on an output.
C24_Witness ==
    /\ \A k \in KeychainIds : IndexesOf(script_pubkeys, k) = {0, 1}
    /\ call.op = "derive_new"
    /\ ret.kind = "Derived"
    /\ ret.value[1] = 1
    /\ txouts # {}

=============================================================================
